---- MODULE Spec2Model ----
(***************************************************************************)
(* A model of egui_svgicon (src/src/lib.rs): the path event adapter        *)
(* PathConvIter, the fit resolver of Svg::show_sized, the thread-local     *)
(* tree cache of Svg::new, the per-frame mesh cache used by show_sized and *)
(* the recursive tessellation of the document tree.                        *)
(*                                                                         *)
(* Each part of the library has its own specification over the shared      *)
(* variables: SpecPath, SpecFit, SpecCache, SpecTess.  The variables a     *)
(* specification does not use keep their initial value.                    *)
(***************************************************************************)
EXTENDS Integers, Sequences, FiniteSets, TLC

VARIABLES
    \* ---- PathConvIter (lib.rs 382-388) and its caller
    data,        \* usvg::Path::data: the path's segments
    iter,        \* PathConvIter::iter: number of segments already consumed
    prev,        \* PathConvIter::prev
    first,       \* PathConvIter::first
    needs_end,   \* PathConvIter::needs_end
    deferred,    \* PathConvIter::deferred (<<>> is None, <<e>> is Some(e))
    out,         \* the events next() has returned so far
    finished,    \* next() has returned None
    \* ---- the fit resolver of Svg::show_sized (lib.rs 174-214)
    fit_in,      \* [fit_mode, frame_rect, svg_rect] of one show_sized call
    fit_out,     \* <<>> before the call, then <<[size, inner_frame_rect, rect]>>
    \* ---- Svg::tessellate (lib.rs 266-378)
    tess_in,     \* [svg, rect, scale] of one tessellate call
    tess_out,    \* <<>> before the call, then <<[panicked, mesh]>>
    \* ---- Svg::new and show_sized with the feature "cached"
    CACHE,       \* Svg::new's thread-local CACHE: key -> Rc<usvg::Tree>
    parsed,      \* the buffers usvg::Tree::from_data has parsed, in order
    loads,       \* per Svg::new call: the buffer given, its key, the tree held
    icon,        \* the Svg the caller is building (<<>>: none)
    caches,      \* FrameCache::cache: key -> (generation, Mesh)
    generation,  \* FrameCache::generation
    requested,   \* the keys show_sized asked the cache for this frame
    alive,       \* the keys computed and asked for in every frame since
    tessellated, \* key -> the generation Tessellator::compute last ran in
    calls,       \* number of show_sized calls made
    shown,       \* the last show_sized call (<<>>: none yet)
    panicked     \* an unwrap() has panicked

pathVars == <<data, iter, prev, first, needs_end, deferred, out, finished>>
fitVars == <<fit_in, fit_out>>
tessVars == <<tess_in, tess_out>>
cacheVars == <<CACHE, parsed, loads, icon, caches, generation, requested, alive,
               tessellated, calls, shown, panicked>>

vars == <<pathVars, fitVars, tessVars, cacheVars>>

\* The variables of the other parts, which a part's actions leave alone.
notPath == <<fitVars, tessVars, cacheVars>>
notFit == <<pathVars, tessVars, cacheVars>>
notTess == <<pathVars, fitVars, cacheVars>>
notCache == <<pathVars, fitVars, tessVars>>

(***************************************************************************)
(* Bounds                                                                  *)
(***************************************************************************)
MaxSegs == 5      \* longest segment list of a path
MaxCoord == 3     \* coordinates are 0..MaxCoord
MaxLen == 4       \* frame and view-box widths and heights are 1..MaxLen
MaxMargin == 1    \* each side of a margin is 0..MaxMargin
MaxNodes == 3     \* most nodes below the root of a document tree
MaxCalls == 2     \* most show_sized calls in a run
MaxFrames == 2    \* most frames ended in a run
HashSpace == 2    \* number of 64-bit hash values, scaled down

(***************************************************************************)
(* Path Event Adapter: PathConvIter                                        *)
(***************************************************************************)
\* lyon::math::Point.  Coordinates are small integers, which `as f32`
\* (lib.rs 403, 412, 420, 436) converts exactly.
Point(x, y) == <<x, y>>

Coords == 0..MaxCoord

\* The points segments may name: the diagonal (c, c).
SegPoints == {Point(c, c) : c \in Coords}

\* usvg::PathSegment
MoveTo(x, y) == [seg |-> "MoveTo", x |-> x, y |-> y]
LineTo(x, y) == [seg |-> "LineTo", x |-> x, y |-> y]
CurveTo(x1, y1, x2, y2, x, y) ==
    [seg |-> "CurveTo", x1 |-> x1, y1 |-> y1, x2 |-> x2, y2 |-> y2,
     x |-> x, y |-> y]
ClosePath == [seg |-> "ClosePath"]

\* The segments a path may hold; a curve's control points are fixed.
Segments ==
    {MoveTo(p[1], p[2]) : p \in SegPoints}
    \cup {LineTo(p[1], p[2]) : p \in SegPoints}
    \cup {CurveTo(1, 0, 0, 1, p[1], p[2]) : p \in SegPoints}
    \cup {ClosePath}

\* lyon::path::PathEvent
Begin(at) == [ev |-> "Begin", at |-> at]
Line(from, to) == [ev |-> "Line", from |-> from, to |-> to]
Cubic(from, ctrl1, ctrl2, to) ==
    [ev |-> "Cubic", from |-> from, ctrl1 |-> ctrl1, ctrl2 |-> ctrl2, to |-> to]
End(last, first_, close) ==
    [ev |-> "End", last |-> last, first |-> first_, close |-> close]

\* Convert<PathConvIter> for usvg::Path: the adapter's initial state.
Convert ==
    /\ iter = 0
    /\ first = Point(0, 0)
    /\ prev = Point(0, 0)
    /\ deferred = <<>>
    /\ needs_end = FALSE

\* The adapter before any path is converted (the other specifications).
IdlePath ==
    /\ data = <<>>
    /\ Convert
    /\ out = <<>>
    /\ finished = FALSE

\* No show_sized call is being resolved (the other specifications).
IdleFit ==
    /\ fit_in = <<>>
    /\ fit_out = <<>>

\* No tessellate call is being made (the other specifications).
IdleTess ==
    /\ tess_in = <<>>
    /\ tess_out = <<>>

\* Nothing loaded or shown yet: the caches as they are constructed.
IdleCache ==
    /\ CACHE = <<>>
    /\ parsed = <<>>
    /\ loads = <<>>
    /\ icon = <<>>
    /\ caches = <<>>
    /\ generation = 0
    /\ requested = {}
    /\ alive = {}
    /\ tessellated = <<>>
    /\ calls = 0
    /\ shown = <<>>
    /\ panicked = FALSE

InitPath ==
    /\ data \in UNION {[1..n -> Segments] : n \in 0..MaxSegs}
    /\ Convert
    /\ out = <<>>
    /\ finished = FALSE
    /\ IdleFit
    /\ IdleTess
    /\ IdleCache

\* next(): a deferred event is pending; return it and clear the slot.
NextDeferred ==
    /\ ~finished
    /\ deferred # <<>>
    /\ out' = Append(out, deferred[1])
    /\ deferred' = <<>>
    /\ UNCHANGED <<data, iter, prev, first, needs_end, finished>>
    /\ UNCHANGED notPath

\* next(): self.iter.next() is Some(MoveTo).
NextMoveTo ==
    /\ ~finished
    /\ deferred = <<>>
    /\ iter < Len(data)
    /\ data[iter + 1].seg = "MoveTo"
    /\ LET s == data[iter + 1] IN
       /\ iter' = iter + 1
       /\ IF needs_end
          THEN /\ needs_end' = FALSE
               /\ prev' = Point(s.x, s.y)
               /\ deferred' = <<Begin(prev')>>
               /\ first' = prev'
               /\ out' = Append(out, End(prev, first, FALSE))
          ELSE /\ first' = Point(s.x, s.y)
               /\ needs_end' = TRUE
               /\ out' = Append(out, Begin(first'))
               /\ UNCHANGED <<prev, deferred>>
    /\ UNCHANGED <<data, finished>>
    /\ UNCHANGED notPath

\* next(): self.iter.next() is Some(LineTo).
NextLineTo ==
    /\ ~finished
    /\ deferred = <<>>
    /\ iter < Len(data)
    /\ data[iter + 1].seg = "LineTo"
    /\ LET s == data[iter + 1] IN
       /\ iter' = iter + 1
       /\ needs_end' = TRUE
       /\ prev' = Point(s.x, s.y)
       /\ out' = Append(out, Line(prev, prev'))
    /\ UNCHANGED <<data, first, deferred, finished>>
    /\ UNCHANGED notPath

\* next(): self.iter.next() is Some(CurveTo).
NextCurveTo ==
    /\ ~finished
    /\ deferred = <<>>
    /\ iter < Len(data)
    /\ data[iter + 1].seg = "CurveTo"
    /\ LET s == data[iter + 1] IN
       /\ iter' = iter + 1
       /\ needs_end' = TRUE
       /\ prev' = Point(s.x, s.y)
       /\ out' = Append(out, Cubic(prev, Point(s.x1, s.y1),
                                   Point(s.x2, s.y2), prev'))
    /\ UNCHANGED <<data, first, deferred, finished>>
    /\ UNCHANGED notPath

\* next(): self.iter.next() is Some(ClosePath).
NextClosePath ==
    /\ ~finished
    /\ deferred = <<>>
    /\ iter < Len(data)
    /\ data[iter + 1].seg = "ClosePath"
    /\ iter' = iter + 1
    /\ needs_end' = FALSE
    /\ prev' = first
    /\ out' = Append(out, End(prev', first, TRUE))
    /\ UNCHANGED <<data, first, deferred, finished>>
    /\ UNCHANGED notPath

\* next(): self.iter.next() is None and a subpath needs its End.
NextNoneEnd ==
    /\ ~finished
    /\ deferred = <<>>
    /\ iter = Len(data)
    /\ needs_end
    /\ needs_end' = FALSE
    /\ out' = Append(out, End(prev, first, FALSE))
    /\ UNCHANGED <<data, iter, prev, first, deferred, finished>>
    /\ UNCHANGED notPath

\* next(): self.iter.next() is None and nothing is pending: return None.
NextNone ==
    /\ ~finished
    /\ deferred = <<>>
    /\ iter = Len(data)
    /\ ~needs_end
    /\ finished' = TRUE
    /\ UNCHANGED <<data, iter, prev, first, needs_end, deferred, out>>
    /\ UNCHANGED notPath

\* PathConvIter::next, called by the tessellator until it returns None.
PathConvIterNext ==
    \/ NextDeferred
    \/ NextMoveTo
    \/ NextLineTo
    \/ NextCurveTo
    \/ NextClosePath
    \/ NextNoneEnd
    \/ NextNone

SpecPath == InitPath /\ [][PathConvIterNext]_vars

(***************************************************************************)
(* Claims about the Path Event Adapter (checked under SpecPath)            *)
(***************************************************************************)
IsEdge(e) == e.ev \in {"Line", "Cubic"}

\* The point an event leaves the pen at (Begin, Line, Cubic).
EndPoint(e) == IF e.ev = "Begin" THEN e.at ELSE e.to

\* The segment list is one a path grammar allows: it starts with a move-to
\* and a close-path is followed by a move-to (or by nothing).
WellFormedData ==
    /\ Len(data) > 0
    /\ data[1].seg = "MoveTo"
    /\ \A i \in 1..(Len(data) - 1) :
          data[i].seg = "ClosePath" => data[i + 1].seg = "MoveTo"

\* Index of the last Begin before position i of the output (0 if none).
LastBegin(i) ==
    LET B == {j \in 1..(i - 1) : out[j].ev = "Begin"}
    IN IF B = {} THEN 0 ELSE CHOOSE j \in B : \A k \in B : k <= j

\* A subpath is open just before position i of the output: the last Begin or
\* End before i is a Begin.
OpenBefore(i) ==
    /\ LastBegin(i) > 0
    /\ \A j \in (LastBegin(i) + 1)..(i - 1) : out[j].ev # "End"

\* What the spec's example shows of an event: an End by its close flag only.
Shown(e) == IF e.ev = "End" THEN [ev |-> "End", close |-> e.close] ELSE e

C1Input ==
    <<MoveTo(0, 0), LineTo(1, 1), ClosePath, MoveTo(2, 2), LineTo(3, 3)>>

C1Expected ==
    <<Begin(Point(0, 0)), Line(Point(0, 0), Point(1, 1)),
      [ev |-> "End", close |-> TRUE],
      Begin(Point(2, 2)), Line(Point(2, 2), Point(3, 3)),
      [ev |-> "End", close |-> FALSE]>>

\* C1: fed MoveTo(0,0), LineTo(1,1), ClosePath, MoveTo(2,2), LineTo(3,3) and
\* then end of stream, the adapter has returned exactly Begin(0,0),
\* Line((0,0)->(1,1)), End{close:true}, Begin(2,2), Line((2,2)->(3,3)),
\* End{close:false} when it returns None.
C1_ExampleEvents ==
    (data = C1Input /\ finished) =>
        [i \in 1..Len(out) |-> Shown(out[i])] = C1Expected

\* C2: when the adapter reports end of output, every Begin it emitted is
\* followed by exactly one End before the next Begin and before the end of
\* the output (stated for segment lists the path grammar allows).
C2_EveryBeginEnded ==
    (finished /\ WellFormedData) =>
        \A i \in 1..Len(out) :
            out[i].ev = "Begin" =>
                LET later == {j \in (i + 1)..Len(out) : out[j].ev = "Begin"}
                    stop == IF later = {} THEN Len(out) + 1
                            ELSE CHOOSE j \in later : \A k \in later : j <= k
                IN Cardinality({j \in (i + 1)..(stop - 1) : out[j].ev = "End"}) = 1

\* C3: for a segment list that starts with a move-to, every Line and Cubic
\* starts, and every End's `last` lies, at the end point of the event before
\* it in the subpath, and every End's `first` is the `at` of the Begin that
\* opened the subpath.
C3_PointsChain ==
    (Len(data) > 0 /\ data[1].seg = "MoveTo") =>
        \A i \in 2..Len(out) :
            /\ (IsEdge(out[i]) /\ out[i - 1].ev # "End") =>
                   out[i].from = EndPoint(out[i - 1])
            /\ (out[i].ev = "End" /\ out[i - 1].ev # "End") =>
                   /\ out[i].last = EndPoint(out[i - 1])
                   /\ out[i].first = out[LastBegin(i)].at

\* C4: for every segment list the adapter emits no Line, Cubic or End
\* outside a Begin..End pair, and the empty list yields no event.
C4_NoEventOutsideSubpath ==
    /\ \A i \in 1..Len(out) : out[i].ev # "Begin" => OpenBefore(i)
    /\ (data = <<>> /\ finished) => out = <<>>

(***************************************************************************)
(* Numbers.  f32 values are modelled as exact rationals <<n, d>> in lowest *)
(* terms with d > 0; the rounding of f32 arithmetic is not modelled.       *)
(***************************************************************************)
Abs(x) == IF x < 0 THEN -x ELSE x

RECURSIVE GCD(_, _)
GCD(a, b) == IF b = 0 THEN a ELSE GCD(b, a % b)

\* The rational n/d (d # 0) in lowest terms.
Rat(n, d) ==
    LET g == GCD(Abs(n), Abs(d))
        sgn == IF d < 0 THEN -1 ELSE 1
    IN <<(sgn * n) \div g, (sgn * d) \div g>>

Int2Rat(n) == <<n, 1>>
RAdd(a, b) == Rat(a[1] * b[2] + b[1] * a[2], a[2] * b[2])
RSub(a, b) == Rat(a[1] * b[2] - b[1] * a[2], a[2] * b[2])
RMul(a, b) == Rat(a[1] * b[1], a[2] * b[2])
RDiv(a, b) == Rat(a[1] * b[2], a[2] * b[1])
RLt(a, b) == a[1] * b[2] < b[1] * a[2]
RLe(a, b) == a[1] * b[2] <= b[1] * a[2]
RGt(a, b) == RLt(b, a)
RGe(a, b) == RLe(b, a)

\* egui::Vec2 / Pos2 and their arithmetic.
Vec2(x, y) == <<x, y>>
VAdd(u, v) == Vec2(RAdd(u[1], v[1]), RAdd(u[2], v[2]))
VSub(u, v) == Vec2(RSub(u[1], v[1]), RSub(u[2], v[2]))
VScale(u, f) == Vec2(RMul(u[1], f), RMul(u[2], f))
VDiv(u, v) == Vec2(RDiv(u[1], v[1]), RDiv(u[2], v[2]))
IntVec2(x, y) == Vec2(Int2Rat(x), Int2Rat(y))

\* egui::Rect
Rect(min, max) == [min |-> min, max |-> max]
RectFromMinSize(min, sz) == Rect(min, VAdd(min, sz))
Width(r) == RSub(r.max[1], r.min[1])
Height(r) == RSub(r.max[2], r.min[2])
RectSize(r) == Vec2(Width(r), Height(r))
AspectRatio(r) == RDiv(Width(r), Height(r))
Center(r) ==
    Vec2(RDiv(RAdd(r.min[1], r.max[1]), Int2Rat(2)),
         RDiv(RAdd(r.min[2], r.max[2]), Int2Rat(2)))

\* egui::Margin
Margin(left, right, top, bottom) ==
    [left |-> left, right |-> right, top |-> top, bottom |-> bottom]
LeftTop(m) == IntVec2(m.left, m.top)
RightBottom(m) == IntVec2(m.right, m.bottom)

\* Align2::CENTER_CENTER.align_size_within_rect(size, frame)
AlignCenter(sz, frame) ==
    RectFromMinSize(VSub(Center(frame), VScale(sz, Rat(1, 2))), sz)

(***************************************************************************)
(* Fit Resolver: the `match self.fit_mode` of Svg::show_sized              *)
(***************************************************************************)
\* enum FitMode
FitNone == [fit |-> "None"]
FitSize(s) == [fit |-> "Size", s |-> s]
FitFactor(f) == [fit |-> "Factor", f |-> f]
FitCover == [fit |-> "Cover"]
FitContain(m) == [fit |-> "Contain", margin |-> m]

\* Cover with the two arms exchanged.
CoverSizeSwapped(frame_rect, svg_rect) ==
    IF RGt(AspectRatio(frame_rect), AspectRatio(svg_rect))
    THEN Vec2(RDiv(RMul(Width(svg_rect), Height(frame_rect)), Height(svg_rect)),
              Height(frame_rect))
    ELSE Vec2(Width(frame_rect),
              RDiv(RMul(Height(svg_rect), Width(frame_rect)), Width(svg_rect)))

\* FitMode::Cover
CoverSize(frame_rect, svg_rect) ==
    IF RGt(AspectRatio(frame_rect), AspectRatio(svg_rect))
    THEN Vec2(Width(frame_rect),
              RDiv(RMul(Height(svg_rect), Width(frame_rect)), Width(svg_rect)))
    ELSE Vec2(RDiv(RMul(Width(svg_rect), Height(frame_rect)), Height(svg_rect)),
              Height(frame_rect))

\* FitMode::Contain: the frame inset by the margin.
Inset(frame_rect, m) ==
    Rect(VAdd(frame_rect.min, LeftTop(m)), VSub(frame_rect.max, RightBottom(m)))

\* Contain with the two arms exchanged.
ContainSizeSwapped(inner_frame_rect, svg_rect) ==
    IF RGt(AspectRatio(inner_frame_rect), AspectRatio(svg_rect))
    THEN Vec2(Width(inner_frame_rect),
              RDiv(RMul(Height(svg_rect), Width(inner_frame_rect)),
                   Width(svg_rect)))
    ELSE Vec2(RDiv(RMul(Width(svg_rect), Height(inner_frame_rect)),
                   Height(svg_rect)),
              Height(inner_frame_rect))

\* FitMode::Contain: the size within the inset frame.
ContainSize(inner_frame_rect, svg_rect) ==
    IF RGt(AspectRatio(inner_frame_rect), AspectRatio(svg_rect))
    THEN Vec2(RDiv(RMul(Width(svg_rect), Height(inner_frame_rect)),
                   Height(svg_rect)),
              Height(inner_frame_rect))
    ELSE Vec2(Width(inner_frame_rect),
              RDiv(RMul(Height(svg_rect), Width(inner_frame_rect)),
                   Width(svg_rect)))

\* show_sized, lines 175-214: the render size, the (inset) frame and the
\* destination rectangle.
Fit(fit_mode, frame_rect, svg_rect) ==
    LET inner_frame_rect ==
            IF fit_mode.fit = "Contain"
            THEN Inset(frame_rect, fit_mode.margin)
            ELSE frame_rect
        sz == CASE fit_mode.fit = "None" -> RectSize(svg_rect)
                [] fit_mode.fit = "Size" -> fit_mode.s
                [] fit_mode.fit = "Factor" ->
                       VScale(RectSize(svg_rect), fit_mode.f)
                [] fit_mode.fit = "Cover" -> CoverSize(frame_rect, svg_rect)
                [] fit_mode.fit = "Contain" ->
                       ContainSize(inner_frame_rect, svg_rect)
    IN [size |-> sz,
        inner_frame_rect |-> inner_frame_rect,
        rect |-> AlignCenter(sz, inner_frame_rect)]

Lens == 1..MaxLen

\* Where ui.allocate_space may put the frame.
FrameMins == {IntVec2(0, 0), IntVec2(2, 1)}

\* Frames handed out by ui.allocate_space(size).
FrameRects ==
    {RectFromMinSize(m, IntVec2(w, h)) : m \in FrameMins, w \in Lens, h \in Lens}

\* View boxes (usvg keeps their width and height positive).
SvgRects == {RectFromMinSize(IntVec2(0, 0), IntVec2(w, h)) : w \in Lens, h \in Lens}

Margins ==
    {Margin(l, r, t, b) : l \in 0..MaxMargin, r \in 0..MaxMargin,
                          t \in 0..MaxMargin, b \in 0..MaxMargin}

FitModes ==
    {FitNone, FitSize(IntVec2(2, 3)), FitFactor(Int2Rat(2)), FitCover}
    \cup {FitContain(m) : m \in Margins}

\* The frame the fit is resolved in keeps a positive width and height.
PositiveRect(r) == RGt(Width(r), Int2Rat(0)) /\ RGt(Height(r), Int2Rat(0))

FitInputs ==
    {i \in [fit_mode : FitModes, frame_rect : FrameRects, svg_rect : SvgRects] :
        i.fit_mode.fit = "Contain" =>
            PositiveRect(Inset(i.frame_rect, i.fit_mode.margin))}

InitFit ==
    /\ fit_in \in FitInputs
    /\ fit_out = <<>>
    /\ IdlePath
    /\ IdleTess
    /\ IdleCache

\* show_sized up to line 214, for one descriptor and frame.
ShowSizedFit ==
    /\ fit_out = <<>>
    /\ fit_out' = <<Fit(fit_in.fit_mode, fit_in.frame_rect, fit_in.svg_rect)>>
    /\ UNCHANGED fit_in
    /\ UNCHANGED notFit

SpecFit == InitFit /\ [][ShowSizedFit]_vars

(***************************************************************************)
(* Claims about the Fit Resolver (checked under SpecFit)                   *)
(***************************************************************************)
Resolved(mode) == fit_out # <<>> /\ fit_in.fit_mode.fit = mode

Transform(a, b, c, d, e, f) ==
    [a |-> a, b |-> b, c |-> c, d |-> d, e |-> e, f |-> f]
Identity == Transform(1, 0, 0, 1, 0, 0)

\* An append that multiplies the other way round: self = other * self.
TransformAppendReversed(ts1, ts2) ==
    Transform(ts2.a * ts1.a + ts2.c * ts1.b,
              ts2.b * ts1.a + ts2.d * ts1.b,
              ts2.a * ts1.c + ts2.c * ts1.d,
              ts2.b * ts1.c + ts2.d * ts1.d,
              ts2.a * ts1.e + ts2.c * ts1.f + ts2.e,
              ts2.b * ts1.e + ts2.d * ts1.f + ts2.f)

\* usvg::Transform::append: self = self * other.
TransformAppend(ts1, ts2) ==
    Transform(ts1.a * ts2.a + ts1.c * ts2.b,
              ts1.b * ts2.a + ts1.d * ts2.b,
              ts1.a * ts2.c + ts1.c * ts2.d,
              ts1.b * ts2.c + ts1.d * ts2.d,
              ts1.a * ts2.e + ts1.c * ts2.f + ts1.e,
              ts1.b * ts2.e + ts1.d * ts2.f + ts1.f)

\* usvg::Transform::apply(x, y)
Apply(ts, x, y) == <<ts.a * x + ts.c * y + ts.e, ts.b * x + ts.d * y + ts.f>>

Scale2 == Transform(2, 0, 0, 2, 0, 0)
Translate1 == Transform(1, 0, 0, 1, 1, 0)
Transforms == {Scale2, Translate1}

\* usvg::Color and usvg::Paint
Black == <<0, 0, 0>>
Red == <<255, 0, 0>>
PaintColor(c) == [paint |-> "Color", c |-> c]
PaintGradient == [paint |-> "LinearGradient"]

\* Convert<Color32> for (usvg::Color, f64), for opacity 0 or 1:
\* Color32::from_rgba_unmultiplied with alpha (opacity * 255.0) as u8.
ConvertColor(color, opacity) ==
    LET alpha == opacity * 255
    IN IF alpha = 0 THEN <<0, 0, 0, 0>>
       ELSE <<color[1], color[2], color[3], alpha>>

\* Svg::color_func: None, with_color(c), or with_color_remap(func) for a
\* func that inverts the colour channels.
NoColorFunc == [cf |-> "None"]
WithColor(c) == [cf |-> "Color", c |-> c]
WithInvert == [cf |-> "Invert"]
LightBlue == <<173, 216, 230, 255>>

\* Calling the stored closure on a colour (the identity when there is none).
CallColorFunc(color_func, c) ==
    CASE color_func.cf = "None" -> c
      [] color_func.cf = "Color" -> color_func.c
      [] color_func.cf = "Invert" -> <<255 - c[1], 255 - c[2], 255 - c[3], c[4]>>

\* usvg::NodeKind.  A tree is the sequence of the nodes below the root, each
\* with its parent's index (0 is the root); siblings are in index order and
\* a parent precedes its children.  `pts` are the points lyon makes vertices
\* of and `err` is the tessellation lyon rejects for this geometry.
PathNode(parent, transform, fill, stroke, err) ==
    [kind |-> "Path", parent |-> parent, transform |-> transform,
     fill |-> fill, stroke |-> stroke,
     pts |-> <<Point(0, 0), Point(1, 0), Point(0, 1)>>, err |-> err]
GroupNode(parent, transform) ==
    [kind |-> "Group", parent |-> parent, transform |-> transform]
ImageNode(parent) == [kind |-> "Image", parent |-> parent]
TextNode(parent) == [kind |-> "Text", parent |-> parent]

\* usvg::Fill / usvg::Stroke: paint and opacity (<<>> is None).
Style(paint, opacity) == <<[paint |-> paint, opacity |-> opacity]>>

\* The children of a node, the last one first.
ChildrenReversed(nodes, parent) ==
    LET C == {i \in 1..Len(nodes) : nodes[i].parent = parent}
        RECURSIVE Sorted(_)
        Sorted(S) ==
            IF S = {} THEN <<>>
            ELSE LET m == CHOOSE x \in S : \A y \in S : x >= y
                 IN <<m>> \o Sorted(S \ {m})
    IN Sorted(C)

\* node.children(), in order.
Children(nodes, parent) ==
    LET C == {i \in 1..Len(nodes) : nodes[i].parent = parent}
        RECURSIVE Sorted(_)
        Sorted(S) ==
            IF S = {} THEN <<>>
            ELSE LET m == CHOOSE x \in S : \A y \in S : x <= y
                 IN <<m>> \o Sorted(S \ {m})
    IN Sorted(C)

(***************************************************************************)
(* Tessellator: Svg::tessellate and Svg::tessellate_recursive              *)
(***************************************************************************)
\* epaint::Mesh / VertexBuffers<epaint::Vertex, u32>
EmptyBuffer == [vertices |-> <<>>, indices |-> <<>>, panicked |-> FALSE]

\* The closure new_egui_vertex (lines 299-329).
NewEguiVertex(svg, p, parent_transform, scale, rect, point, style) ==
    LET transform == TransformAppend(parent_transform, p.transform)
        xy == Apply(transform, point[1], point[2])
        pos0 == VSub(IntVec2(xy[1], xy[2]), svg.tree.view_box.min)
        pos1 == Vec2(RMul(pos0[1], scale[1]), RMul(pos0[2], scale[2]))
        color == IF style.paint.paint = "Color" THEN style.paint.c ELSE Black
    IN [pos |-> VAdd(pos1, rect.min),
        color |-> CallColorFunc(svg.color_func,
                                ConvertColor(color, style.opacity))]

\* BuffersBuilder over lyon's output for one fill or stroke: a vertex per
\* point and a triangle fan over them, indexed from the buffer's length.
AddGeometry(buffer, svg, p, parent_transform, scale, rect, style) ==
    LET base == Len(buffer.vertices)
        n == Len(p.pts)
    IN [buffer EXCEPT
          !.vertices = @ \o [i \in 1..n |->
               NewEguiVertex(svg, p, parent_transform, scale, rect,
                             p.pts[i], style)],
          !.indices = @ \o [k \in 1..(3 * (n - 2)) |->
               IF k % 3 = 1 THEN base
               ELSE IF k % 3 = 2 THEN base + ((k + 1) \div 3)
               ELSE base + (k \div 3) + 1]]

\* fill_tesselator.tessellate(..).unwrap(), then the same for the stroke.
TessellatePath(buffer, svg, p, parent_transform, scale, rect) ==
    LET afterFill ==
            IF p.fill = <<>> THEN buffer
            ELSE IF p.err = "fill" THEN [buffer EXCEPT !.panicked = TRUE]
            ELSE AddGeometry(buffer, svg, p, parent_transform, scale, rect,
                             p.fill[1])
    IN IF afterFill.panicked \/ p.stroke = <<>> THEN afterFill
       ELSE IF p.err = "stroke" THEN [afterFill EXCEPT !.panicked = TRUE]
       ELSE AddGeometry(afterFill, svg, p, parent_transform, scale, rect,
                        p.stroke[1])

RECURSIVE TessellateNodes(_, _, _, _, _, _)
\* tessellate_recursive: the loop over `todo`, the not yet visited children
\* of one parent; a panic ends the call.
TessellateNodes(buffer, svg, scale, rect, todo, parent_transform) ==
    IF todo = <<>> \/ buffer.panicked THEN buffer
    ELSE LET node == svg.tree.nodes[Head(todo)]
             after ==
               CASE node.kind = "Path" ->
                      TessellatePath(buffer, svg, node, parent_transform,
                                     scale, rect)
                 [] node.kind = "Group" ->
                      TessellateNodes(buffer, svg, scale, rect,
                                      Children(svg.tree.nodes, Head(todo)),
                                      TransformAppend(parent_transform, node.transform))
                 [] OTHER -> buffer
         IN TessellateNodes(after, svg, scale, rect, Tail(todo),
                            parent_transform)

\* Svg::tessellate
Tessellate(svg, rect, scale) ==
    LET buffer == TessellateNodes(EmptyBuffer, svg, scale, rect,
                                  Children(svg.tree.nodes, 0), Identity)
    IN [panicked |-> buffer.panicked,
        mesh |-> [vertices |-> buffer.vertices, indices |-> buffer.indices]]

\* The kinds of path a document may hold.
PathStyles ==
    {[fill |-> Style(PaintColor(Red), 1), stroke |-> <<>>, err |-> "none"],
     [fill |-> <<>>, stroke |-> Style(PaintColor(Black), 1), err |-> "none"],
     [fill |-> Style(PaintGradient, 1), stroke |-> Style(PaintColor(Red), 1),
      err |-> "none"],
     [fill |-> Style(PaintColor(Red), 1), stroke |-> Style(PaintColor(Black), 1),
      err |-> "fill"],
     [fill |-> Style(PaintColor(Red), 1), stroke |-> Style(PaintColor(Black), 1),
      err |-> "stroke"]}

\* The nodes that may hang below `parent`: paths carry the translation,
\* groups either transform.
NodesBelow(parent) ==
    {PathNode(parent, Translate1, s.fill, s.stroke, s.err) : s \in PathStyles}
    \cup {GroupNode(parent, t) : t \in Transforms}
    \cup {ImageNode(parent), TextNode(parent)}

\* Node sequences of length n in which every parent is the root or an
\* earlier group.
RECURSIVE NodeSeqs(_)
NodeSeqs(n) ==
    IF n = 0 THEN {<<>>}
    ELSE UNION {{Append(ns, nd) :
                   nd \in UNION {NodesBelow(q) :
                       q \in {0} \cup {j \in 1..(n - 1) : ns[j].kind = "Group"}}} :
                ns \in NodeSeqs(n - 1)}
\* Svg (lib.rs 26-34); `key` is the tree cache's key of the document.
Svg(tree, key, color_func, tolerance, scale_tolerance, fit_mode) ==
    [tree |-> tree, key |-> key, color_func |-> color_func,
     tolerance |-> tolerance, scale_tolerance |-> scale_tolerance,
     fit_mode |-> fit_mode]

\* usvg::Tree: the view box and the nodes below the root (`rc` tells the
\* allocations apart).
Tree(rc, view_box, nodes) == [rc |-> rc, view_box |-> view_box, nodes |-> nodes]

UnitViewBox == RectFromMinSize(IntVec2(0, 0), IntVec2(1, 1))

\* The trees of at most `most` nodes.
Trees(most) ==
    {Tree(0, UnitViewBox, nodes) :
        nodes \in UNION {NodeSeqs(n) : n \in 0..most}}

ColorFuncs == {NoColorFunc, WithColor(LightBlue), WithInvert}

\* tessellate as show_sized calls it without the cache (line 217), for a
\* frame of the view box's size at the origin.
TessInputs(most) ==
    {[svg |-> Svg(t, 0, NoColorFunc, 1, TRUE, FitContain(Margin(0, 0, 0, 0))),
      rect |-> UnitViewBox,
      scale |-> IntVec2(1, 1)] : t \in Trees(most)}

InitTess ==
    /\ tess_in \in TessInputs(MaxNodes)
    /\ tess_out = <<>>
    /\ IdlePath
    /\ IdleFit
    /\ IdleCache

\* One call of Svg::tessellate.
TessellateCall ==
    /\ tess_out = <<>>
    /\ tess_out' = <<Tessellate(tess_in.svg, tess_in.rect, tess_in.scale)>>
    /\ UNCHANGED tess_in
    /\ UNCHANGED notTess

SpecTess == InitTess /\ [][TessellateCall]_vars

(***************************************************************************)
(* Claims about the Tessellator (checked under SpecTess)                   *)
(***************************************************************************)
\* The path's fill or stroke is one lyon fails to triangulate.
Fails(nd) ==
    /\ nd.kind = "Path"
    /\ \/ nd.err = "fill" /\ nd.fill # <<>>
       \/ nd.err = "stroke" /\ nd.stroke # <<>>

\* The tree with every failing path emptied of its fill and stroke.
WithoutFailing(tree) ==
    [tree EXCEPT !.nodes =
        [i \in 1..Len(tree.nodes) |->
            IF Fails(tree.nodes[i])
            THEN [tree.nodes[i] EXCEPT !.fill = <<>>, !.stroke = <<>>]
            ELSE tree.nodes[i]]]

\* C10: when a path's fill or stroke fails to triangulate, tessellate does
\* not panic and returns the mesh of all the other paths.
C10_FailedPathSkipped ==
    tess_out # <<>> =>
        /\ ~tess_out[1].panicked
        /\ tess_out[1].mesh =
             Tessellate([tess_in.svg EXCEPT !.tree = WithoutFailing(@)],
                        tess_in.rect, tess_in.scale).mesh

\* The groups above node i, from the child of the root down to i's parent.
RECURSIVE Ancestors(_, _)
Ancestors(nodes, i) ==
    IF nodes[i].parent = 0 THEN <<>>
    ELSE Append(Ancestors(nodes, nodes[i].parent), nodes[i].parent)

\* The point after each transform of `ts` was applied to it, the first of
\* `ts` first.
RECURSIVE ApplyInTurn(_, _)
ApplyInTurn(ts, xy) ==
    IF ts = <<>> THEN xy
    ELSE ApplyInTurn(Tail(ts), Apply(Head(ts), xy[1], xy[2]))

Reverse(seq) == [k \in 1..Len(seq) |-> seq[Len(seq) + 1 - k]]

\* The transforms of the ancestors of node i, root side first.
Inherited(nodes, i) ==
    [k \in 1..Len(Ancestors(nodes, i)) |->
        nodes[Ancestors(nodes, i)[k]].transform]

\* The ancestors' transforms, root side first, then the node's own.
InheritedThenLocal(nodes, i) == Append(Inherited(nodes, i), nodes[i].transform)

\* The node's own transform, then its ancestors', parent first, root last.
LocalThenInherited(nodes, i) ==
    <<nodes[i].transform>> \o Reverse(Inherited(nodes, i))

\* A document-space point in the mesh (lines 310-313).
Placed(in, xy) ==
    LET pos == VSub(IntVec2(xy[1], xy[2]), in.svg.tree.view_box.min)
    IN VAdd(Vec2(RMul(pos[1], in.scale[1]), RMul(pos[2], in.scale[2])),
            in.rect.min)

\* A path with a fill or a stroke.
Painted(nd) == nd.kind = "Path" /\ (nd.fill # <<>> \/ nd.stroke # <<>>)

\* tessellate returned a mesh.
Tessellated == tess_out # <<>> /\ ~tess_out[1].panicked

\* Where the points of the painted paths lie when a local point of node i
\* is mapped by the transforms of chains[i] in turn.
ExpectedPositions(chains) ==
    LET nodes == tess_in.svg.tree.nodes
    IN UNION {{Placed(tess_in, ApplyInTurn(chains[i], nodes[i].pts[k])) :
                 k \in 1..Len(nodes[i].pts)} :
              i \in {j \in 1..Len(nodes) : Painted(nodes[j])}}

\* For each node of the tree being tessellated, its transforms in the order
\* given: inherited first, or the node's own first.
InheritedFirst ==
    [i \in 1..Len(tess_in.svg.tree.nodes) |->
        IF tess_in.svg.tree.nodes[i].kind \in {"Path", "Group"}
        THEN InheritedThenLocal(tess_in.svg.tree.nodes, i) ELSE <<>>]
LocalFirst ==
    [i \in 1..Len(tess_in.svg.tree.nodes) |->
        IF tess_in.svg.tree.nodes[i].kind \in {"Path", "Group"}
        THEN LocalThenInherited(tess_in.svg.tree.nodes, i) ELSE <<>>]

MeshPositions ==
    {tess_out[1].mesh.vertices[k].pos :
        k \in 1..Len(tess_out[1].mesh.vertices)}

\* C12 as stated: a path's local points are mapped by its ancestor groups'
\* transforms first, root to parent, and by the path's own transform last.
C12_AncestorsBeforeOwn ==
    Tessellated => MeshPositions = ExpectedPositions(InheritedFirst)

\* C12, amended: a path's local points are mapped by the path's own
\* transform first and then by the transforms of exactly its ancestor
\* groups, parent first and root last (the matrix product root * .. *
\* parent * own); no other group's transform takes part.
C12_OwnBeforeAncestors ==
    Tessellated => MeshPositions = ExpectedPositions(LocalFirst)

\* A painted path inside a translating group inside a scaling group.
C12_Witness ==
    /\ Tessellated
    /\ Len(tess_in.svg.tree.nodes) = 3
    /\ tess_in.svg.tree.nodes[1] = GroupNode(0, Scale2)
    /\ tess_in.svg.tree.nodes[2] = GroupNode(1, Translate1)
    /\ Painted(tess_in.svg.tree.nodes[3])
    /\ tess_in.svg.tree.nodes[3].parent = 2
    /\ tess_out[1].mesh.vertices # <<>>


\* The way from the root to node i: its ancestors, then i.
Chain(nodes, i) == Append(Ancestors(nodes, i), i)

\* s comes before t in dictionary order (a prefix before its extensions).
RECURSIVE LexLess(_, _)
LexLess(s, t) ==
    IF s = <<>> THEN t # <<>>
    ELSE IF t = <<>> THEN FALSE
    ELSE IF Head(s) = Head(t) THEN LexLess(Tail(s), Tail(t))
    ELSE Head(s) < Head(t)

\* Node a is met before node b when the tree is walked depth first with
\* the children of a node in order.
Precedes(nodes, a, b) == LexLess(Chain(nodes, a), Chain(nodes, b))

\* The nodes of S in the order of that walk.
RECURSIVE InDocumentOrder(_, _)
InDocumentOrder(nodes, S) ==
    IF S = {} THEN <<>>
    ELSE LET a == CHOOSE x \in S : \A y \in S \ {x} : Precedes(nodes, x, y)
         IN <<a>> \o InDocumentOrder(nodes, S \ {a})

\* The vertices lyon's output gives for one fill or stroke of path i.
ExpectedVertices(in, i, style) ==
    LET nodes == in.svg.tree.nodes
        color == IF style.paint.paint = "Color" THEN style.paint.c ELSE Black
    IN [k \in 1..Len(nodes[i].pts) |->
          [pos |-> Placed(in, ApplyInTurn(LocalThenInherited(nodes, i),
                                          nodes[i].pts[k])),
           color |-> CallColorFunc(in.svg.color_func,
                                   ConvertColor(color, style.opacity))]]

\* The vertices of path i: those of its fill, then those of its stroke.
PathBlock(in, i) ==
    LET nd == in.svg.tree.nodes[i]
    IN (IF nd.fill = <<>> THEN <<>> ELSE ExpectedVertices(in, i, nd.fill[1]))
       \o (IF nd.stroke = <<>> THEN <<>>
           ELSE ExpectedVertices(in, i, nd.stroke[1]))

RECURSIVE Blocks(_, _)
Blocks(in, order) ==
    IF order = <<>> THEN <<>>
    ELSE PathBlock(in, Head(order)) \o Blocks(in, Tail(order))

\* C13: the mesh holds the vertices of the paths in depth-first document
\* order, each path's fill before its stroke, and nothing for groups,
\* images or text; every triangle (three points per fill or stroke) takes
\* its three vertices in buffer order, so the triangles of an earlier path
\* come before those of a later one.
C13_DepthFirstOrder ==
    Tessellated =>
        LET nodes == tess_in.svg.tree.nodes
            paths == {i \in 1..Len(nodes) : nodes[i].kind = "Path"}
            mesh == tess_out[1].mesh
        IN /\ mesh.vertices = Blocks(tess_in, InDocumentOrder(nodes, paths))
           /\ mesh.indices = [k \in 1..Len(mesh.vertices) |-> k - 1]

\* A path inside a group that is followed by a sibling path: the walk meets
\* node 3 before node 2, and node 3 has both a fill and a stroke.
C13_Witness ==
    /\ Tessellated
    /\ Len(tess_in.svg.tree.nodes) = 3
    /\ tess_in.svg.tree.nodes[1].kind = "Group"
    /\ Painted(tess_in.svg.tree.nodes[2])
    /\ tess_in.svg.tree.nodes[2].parent = 0
    /\ tess_in.svg.tree.nodes[3].kind = "Path"
    /\ tess_in.svg.tree.nodes[3].parent = 1
    /\ tess_in.svg.tree.nodes[3].fill # <<>>
    /\ tess_in.svg.tree.nodes[3].stroke # <<>>
    /\ Len(tess_out[1].mesh.vertices) = 9


(***************************************************************************)
(* Svg::new with the feature "cached": the thread-local tree cache         *)
(***************************************************************************)
\* A finite map as a function; <<>> is the empty map.
Put(f, k, v) == [x \in DOMAIN f \cup {k} |-> IF x = k THEN v ELSE f[x]]

\* The byte buffers the program loads; <<3>> is not a document.
Documents == {<<0>>, <<1>>, <<2>>, <<3>>}
Malformed(d) == d = <<3>>

RECURSIVE HashBytes(_, _)
HashBytes(h, bytes) ==
    IF bytes = <<>> THEN h
    ELSE HashBytes((h * 31 + Head(bytes) + 1) % HashSpace, Tail(bytes))

\* data.hash(&mut hasher); hasher.finish(): a hash of the bytes, with fewer
\* values than there are buffers.
Hash(d) == HashBytes(0, d)

\* What usvg::Tree::from_data makes of each document.
ViewBoxOf(d) ==
    CASE d = <<0>> -> RectFromMinSize(IntVec2(0, 0), IntVec2(2, 1))
      [] d = <<1>> -> RectFromMinSize(IntVec2(0, 0), IntVec2(1, 1))
      [] OTHER -> RectFromMinSize(IntVec2(1, 0), IntVec2(1, 2))

NodesOf(d) ==
    CASE d = <<0>> ->
           <<PathNode(0, Identity, Style(PaintColor(Red), 1), <<>>, "none")>>
      [] d = <<1>> ->
           <<GroupNode(0, Scale2),
             PathNode(1, Translate1, <<>>, Style(PaintColor(Black), 1), "none"),
             ImageNode(0)>>
      [] OTHER ->
           <<PathNode(0, Translate1, Style(PaintGradient, 1),
                      Style(PaintColor(Red), 1), "none")>>

\* Rc::new(usvg::Tree::from_data(data, ..).unwrap()) for a well-formed
\* buffer; rc numbers the allocation.
FromData(d, rc) == Tree(rc, ViewBoxOf(d), NodesOf(d))

\* cache.borrow_mut().entry(key).or_insert_with(|| parse).clone()
CacheEntry(cache, log, key, d) ==
    IF key \in DOMAIN cache
    THEN [cache |-> cache, parsed |-> log, tree |-> cache[key]]
    ELSE LET t == FromData(d, Len(log) + 1)
         IN [cache |-> Put(cache, key, t), parsed |-> Append(log, d), tree |-> t]

\* Svg::new(data)
SvgNew(d) ==
    /\ ~panicked
    /\ icon = <<>>
    /\ calls < MaxCalls
    /\ LET key == Hash(d) IN
       IF key \notin DOMAIN CACHE /\ Malformed(d)
       THEN /\ panicked' = TRUE
            /\ UNCHANGED <<CACHE, parsed, loads, icon>>
       ELSE LET e == CacheEntry(CACHE, parsed, key, d) IN
            /\ CACHE' = e.cache
            /\ parsed' = e.parsed
            /\ loads' = Append(loads, [data |-> d, key |-> key, tree |-> e.tree])
            /\ icon' = <<Svg(e.tree, key, NoColorFunc, 1, TRUE,
                             FitContain(Margin(0, 0, 0, 0)))>>
            /\ UNCHANGED panicked
    /\ UNCHANGED <<caches, generation, requested, alive, tessellated, calls, shown>>
    /\ UNCHANGED notCache

Building == ~panicked /\ icon # <<>>

\* with_color_remap(func), func inverting the channels
WithColorRemap ==
    /\ Building
    /\ icon' = <<[icon[1] EXCEPT !.color_func = WithInvert]>>
    /\ UNCHANGED <<CACHE, parsed, loads, caches, generation, requested, alive,
                   tessellated, calls, shown, panicked>>
    /\ UNCHANGED notCache

\* with_color(Color32::LIGHT_BLUE)
WithColorCall ==
    /\ Building
    /\ icon' = <<[icon[1] EXCEPT !.color_func = WithColor(LightBlue)]>>
    /\ UNCHANGED <<CACHE, parsed, loads, caches, generation, requested, alive,
                   tessellated, calls, shown, panicked>>
    /\ UNCHANGED notCache

\* with_fit_mode(FitMode::Cover)
WithFitMode ==
    /\ Building
    /\ icon' = <<[icon[1] EXCEPT !.fit_mode = FitCover]>>
    /\ UNCHANGED <<CACHE, parsed, loads, caches, generation, requested, alive,
                   tessellated, calls, shown, panicked>>
    /\ UNCHANGED notCache

(***************************************************************************)
(* show_sized with the feature "cached": FrameCache<_, Tessellator>        *)
(***************************************************************************)
\* Svg::svg_rect
SvgRect(self) == self.tree.view_box

\* What impl Hash for Svg and for TessellateCacheKey feed the hasher.
TessellateCacheKey(self, sz) ==
    <<self.key, self.tolerance, self.scale_tolerance, self.fit_mode, sz>>

\* Tessellator::compute
Compute(self, sz) ==
    Tessellate(self, RectFromMinSize(IntVec2(0, 0), sz),
               VDiv(sz, RectSize(SvgRect(self))))

\* A get that leaves a hit entry's generation as it was.
FrameCacheGetNoTouch(cache, gen, key, self, sz) ==
    IF key \in DOMAIN cache
    THEN [cache |-> cache, value |-> cache[key].value, computed |-> FALSE,
          panicked |-> FALSE]
    ELSE LET r == Compute(self, sz)
         IN [cache |-> Put(cache, key, [generation |-> gen, value |-> r.mesh]),
             value |-> r.mesh, computed |-> TRUE, panicked |-> r.panicked]

\* FrameCache::get: a hit is marked used in this generation and cloned, a
\* miss is computed and stored.
FrameCacheGet(cache, gen, key, self, sz) ==
    IF key \in DOMAIN cache
    THEN [cache |-> [cache EXCEPT ![key].generation = gen],
          value |-> cache[key].value, computed |-> FALSE, panicked |-> FALSE]
    ELSE LET r == Compute(self, sz)
         IN [cache |-> Put(cache, key, [generation |-> gen, value |-> r.mesh]),
             value |-> r.mesh, computed |-> TRUE, panicked |-> r.panicked]

\* Mesh::translate
Translate(mesh, delta) ==
    [mesh EXCEPT !.vertices =
        [i \in 1..Len(mesh.vertices) |->
            [mesh.vertices[i] EXCEPT !.pos = VAdd(@, delta)]]]

\* Lines 251-255: the remap over the vertex colours of the returned mesh.
Recolor(mesh, color_func) ==
    IF color_func.cf = "None" THEN mesh
    ELSE [mesh EXCEPT !.vertices =
            [i \in 1..Len(mesh.vertices) |->
                [mesh.vertices[i] EXCEPT
                    !.color = CallColorFunc(color_func, @)]]]

\* The frame ui.allocate_space hands out.
CacheFrames == {RectFromMinSize(IntVec2(2, 1), IntVec2(2, 2))}

\* show_sized(ui, size), which consumes the descriptor.
ShowSized(frame_rect) ==
    /\ Building
    /\ \E self \in {icon[1]} :
       \E fit \in {Fit(self.fit_mode, frame_rect, SvgRect(self))} :
       \E key \in {TessellateCacheKey(self, fit.size)} :
       \E got \in {FrameCacheGet(caches, generation, key, self, fit.size)} :
          IF got.panicked
          THEN /\ panicked' = TRUE
               /\ UNCHANGED <<caches, requested, alive, tessellated, calls,
                              shown, icon>>
          ELSE /\ caches' = got.cache
               /\ requested' = requested \cup {key}
               /\ alive' = alive \cup {key}
               /\ tessellated' = IF got.computed
                                 THEN Put(tessellated, key, generation)
                                 ELSE tessellated
               /\ calls' = calls + 1
               /\ shown' = <<[svg |-> self, frame_rect |-> frame_rect,
                              size |-> fit.size, rect |-> fit.rect,
                              key |-> key, computed |-> got.computed,
                              again |-> key \in DOMAIN tessellated,
                              wasAlive |-> key \in alive,
                              mesh |-> Recolor(Translate(got.value, fit.rect.min),
                                               self.color_func)]>>
               /\ icon' = <<>>
               /\ UNCHANGED panicked
    /\ UNCHANGED <<CACHE, parsed, loads, generation>>
    /\ UNCHANGED notCache

\* FrameCache::evict_cache: keep the entries used in this generation.  The
\* generation is a u32 advanced by wrapping_add; a run ends far fewer frames
\* than it takes to wrap.
EvictCache(cache, gen) ==
    [cache |-> [k \in {x \in DOMAIN cache : cache[x].generation = gen} |->
                   cache[k]],
     generation |-> gen + 1]

\* The frame ends (eframe returns from App::update): egui updates its caches.
EndFrame ==
    /\ ~panicked
    /\ icon = <<>>
    /\ generation < MaxFrames
    /\ LET e == EvictCache(caches, generation) IN
       /\ caches' = e.cache
       /\ generation' = e.generation
    /\ alive' = alive \cap requested
    /\ requested' = {}
    /\ UNCHANGED <<CACHE, parsed, loads, icon, tessellated, calls, shown, panicked>>
    /\ UNCHANGED notCache

InitCache ==
    /\ IdleCache
    /\ IdlePath
    /\ IdleFit
    /\ IdleTess

NextCache ==
    \/ \E d \in Documents : SvgNew(d)
    \/ WithColorRemap
    \/ WithColorCall
    \/ WithFitMode
    \/ \E f \in CacheFrames : ShowSized(f)
    \/ EndFrame

SpecCache == InitCache /\ [][NextCache]_vars

(***************************************************************************)
(* Claims about the caches (checked under SpecCache)                       *)
(***************************************************************************)
Colors(mesh) == [i \in 1..Len(mesh.vertices) |-> mesh.vertices[i].color]

\* The mesh show_sized paints without the feature "cached" (line 217).
Uncached(s) ==
    Tessellate(s.svg, s.rect, VDiv(s.size, RectSize(SvgRect(s.svg)))).mesh

\* C5: the vertex colours of the mesh a display call gets from the cache are
\* the descriptor's own remap applied once to the source colours: the colours
\* the uncached tessellation gives.
C5_ColoursAsUncached ==
    shown # <<>> => Colors(shown[1].mesh) = Colors(Uncached(shown[1]))

C7_TreePerContent ==
    /\ \A i \in 1..Len(loads) :
          /\ loads[i].tree.nodes = NodesOf(loads[i].data)
          /\ loads[i].tree.view_box = ViewBoxOf(loads[i].data)
          /\ Cardinality({j \in 1..Len(parsed) : parsed[j] = loads[i].data}) = 1
    /\ \A i, j \in 1..Len(loads) :
          (loads[i].data = loads[j].data) <=> (loads[i].tree = loads[j].tree)
    /\ \A j \in 1..Len(parsed) :
          \E k \in DOMAIN CACHE : CACHE[k].rc = j

\* C11: Svg::new given bytes that are not a document does not panic.  A
\* panic with no descriptor built is one raised inside Svg::new (show_sized
\* panics with its descriptor in hand).
C11_MalformedReported ==
    ~(panicked /\ icon = <<>>)

====
